---------------------------- MODULE Spec2Model ----------------------------
(***************************************************************************)
(* keyvault: the Lucene-style search query compiler (lucene_parser.rs) and *)
(* the POST /search handler that embeds its output in a SQL statement      *)
(* (lib.rs).                                                               *)
(*                                                                         *)
(* Strings are TLA+ strings; a character is a string of length one.        *)
(* A result is a record [kind, val]: kind is "Ok", "SyntaxError",          *)
(* "InternalError" or "Panic" (an unwrap on None), val the SQL text or the *)
(* message.  pc is "call"/"done" around a call of the compiler alone and   *)
(* "idle"/"received"/"answered" in it.                                       *)
(***************************************************************************)
EXTENDS Integers, Sequences, FiniteSets, TLC

VARIABLES
  raw,            \* the argument of the current query_to_sql call
  pc,             \* "call" before the call, "done" after it returned
  result,         \* what query_to_sql returned
  parse_tree,     \* the Pairs QueryParser::parse returned, <<>> when it did not
  parser_invoked, \* whether the call reached QueryParser::parse
  secrets,        \* the rows of the secrets table
  request,        \* the HTTP request in flight, or the last one answered
  response,       \* the answer to request, NoResponse while it is in flight
  executed,       \* the statements request's handler sent to the database
  calls,          \* the locals of each concurrent call of query_to_sql
  returned,       \* <<argument, result>> of the calls that returned
  written         \* <<project, key, value>> of the last acknowledged upsert of
                  \* each (project, key) that no acknowledged delete followed

vars ==
  <<raw, pc, result, parse_tree, parser_invoked,
    secrets, request, response, executed, calls, returned, written>>

---------------------------------------------------------------------------
(* Strings *)

Char(s, i) == SubSeq(s, i, i)

\* s[from..] as Rust's &s[from..]
From(s, i) == SubSeq(s, i, Len(s))

StartsWithAt(s, i, p) ==
  /\ i + Len(p) - 1 <= Len(s)
  /\ SubSeq(s, i, i + Len(p) - 1) = p

\* str::replace: every non-overlapping match of pat, left to right
RECURSIVE ReplaceFrom(_, _, _, _)
ReplaceFrom(s, i, pat, to) ==
  IF i > Len(s) THEN ""
  ELSE IF StartsWithAt(s, i, pat) THEN to \o ReplaceFrom(s, i + Len(pat), pat, to)
  ELSE Char(s, i) \o ReplaceFrom(s, i + 1, pat, to)

Replace(s, pat, to) == ReplaceFrom(s, 1, pat, to)

\* the characters str::trim removes that the model's alphabet contains
TrimChars == {" ", "\t"}

RECURSIVE TrimStart(_)
TrimStart(s) ==
  IF Len(s) > 0 /\ Char(s, 1) \in TrimChars THEN TrimStart(From(s, 2)) ELSE s

RECURSIVE TrimEnd(_)
TrimEnd(s) ==
  IF Len(s) > 0 /\ Char(s, Len(s)) \in TrimChars
  THEN TrimEnd(SubSeq(s, 1, Len(s) - 1)) ELSE s

Trim(s) == TrimEnd(TrimStart(s))

RECURSIVE Join(_, _)
Join(parts, sep) ==
  IF Len(parts) = 0 THEN ""
  ELSE IF Len(parts) = 1 THEN parts[1]
  ELSE parts[1] \o sep \o Join(Tail(parts), sep)

---------------------------------------------------------------------------
(* Results *)

Ok(s) == [kind |-> "Ok", val |-> s]
InternalError(msg) == [kind |-> "InternalError", val |-> msg]
SyntaxError == [kind |-> "SyntaxError", val |-> ""]
Panic == [kind |-> "Panic", val |-> "unwrap on None"]
IsOk(r) == r.kind = "Ok"

---------------------------------------------------------------------------
(* Escaping *)

\* variant of escape_sql_like: the backslash pass comes last
escape_sql_like_backslash_last(s) ==
  Replace(Replace(Replace(s, "%", "\\%"), "_", "\\_"), "\\", "\\\\")

\* s.replace('\\', "\\\\").replace('%', "\\%").replace('_', "\\_")
escape_sql_like(s) ==
  Replace(Replace(Replace(s, "\\", "\\\\"), "%", "\\%"), "_", "\\_")

\* variant of json_escape: the text is escaped for LIKE first
json_escape_after_like(s) ==
  Replace(Replace(escape_sql_like(s), "\\", "\\\\"), "\"", "\\\"")

\* key_raw.replace('\\', "\\\\").replace('"', "\\\"")
json_escape(s) == Replace(Replace(s, "\\", "\\\\"), "\"", "\\\"")

\* variant of unescape: the second pass is missing
unescape_backslash_only(inner) == Replace(inner, "\\\\", "\\")

\* inner.replace("\\\\", "\\").replace("\\\"", "\"")
unescape(inner) == Replace(Replace(inner, "\\\\", "\\"), "\\\"", "\"")

\* &s[1..s.len() - 1]
strip_quotes(s) == SubSeq(s, 2, Len(s) - 1)

---------------------------------------------------------------------------
(* Parse tree: a pest Pair is [rule, str, inner]; str is the matched text *)
(* (Pair::as_str), inner the sequence of child pairs (Pair::into_inner).  *)

Pair(rule, str, inner) == [rule |-> rule, str |-> str, inner |-> inner]

is_ws(pair) == pair.rule = "WHITESPACE"

\* variant of is_sep: an and_op pair is not a separator
is_sep_ws_or_only(pair) == is_ws(pair) \/ pair.rule = "or_op"

is_sep(pair) == is_ws(pair) \/ pair.rule \in {"and_op", "or_op"}

\* Iterator::find(|p| !is_ws(p)): the index of the first pair at or after i
\* that is not whitespace, 0 when there is none
RECURSIVE next_non_ws(_, _)
next_non_ws(pairs, i) ==
  IF i > Len(pairs) THEN 0
  ELSE IF ~is_ws(pairs[i]) THEN i
  ELSE next_non_ws(pairs, i + 1)

\* pair.into_inner().filter(|p| !is_ws(p))
RECURSIVE filter_non_ws(_)
filter_non_ws(pairs) ==
  IF Len(pairs) = 0 THEN <<>>
  ELSE IF is_ws(pairs[1]) THEN filter_non_ws(Tail(pairs))
  ELSE <<pairs[1]>> \o filter_non_ws(Tail(pairs))

\* variant of raw_text: the ident arm is missing
raw_text_quoted_only(inner_pair, what) ==
  IF inner_pair.rule = "quoted_string"
  THEN Ok(unescape(strip_quotes(inner_pair.str)))
  ELSE InternalError("Unexpected rule inside " \o what \o ": " \o inner_pair.rule)

\* the match on key_inner_pair / value_inner_pair
raw_text(inner_pair, what) ==
  IF inner_pair.rule = "quoted_string"
  THEN Ok(unescape(strip_quotes(inner_pair.str)))
  ELSE IF inner_pair.rule = "ident" THEN Ok(inner_pair.str)
  ELSE InternalError("Unexpected rule inside " \o what \o ": " \o inner_pair.rule)

\* variant of key_value_sql: a generic pair collapses to the containment clause
key_value_sql_json_only(key_raw, val_raw) ==
  LET like_val == escape_sql_like(val_raw) IN
  IF key_raw = "secret_key"
  THEN "secret_key ILIKE '%" \o like_val \o "%'"
  ELSE IF key_raw = "secret_value"
  THEN "secret_value::text ILIKE '%" \o like_val \o "%'"
  ELSE "secret_value @> '{\"" \o json_escape(key_raw) \o "\": \""
       \o json_escape(val_raw) \o "\"}'"

\* variant of key_value_sql: the secret_value arm is missing
key_value_sql_one_schema_field(key_raw, val_raw) ==
  LET like_key == escape_sql_like(key_raw)
      like_val == escape_sql_like(val_raw)
  IN  IF key_raw = "secret_key"
      THEN "secret_key ILIKE '%" \o like_val \o "%'"
      ELSE "(secret_key ILIKE '%" \o like_key
           \o "%' AND secret_value::text ILIKE '%" \o like_val
           \o "%' OR secret_value @> '{\"" \o json_escape(key_raw) \o "\": \""
           \o json_escape(val_raw) \o "\"}')"

\* the final match on key_raw
key_value_sql(key_raw, val_raw) ==
  LET like_key == escape_sql_like(key_raw)
      like_val == escape_sql_like(val_raw)
      json_key == json_escape(key_raw)
      json_val == json_escape(val_raw)
  IN  IF key_raw = "secret_key"
      THEN "secret_key ILIKE '%" \o like_val \o "%'"
      ELSE IF key_raw = "secret_value"
      THEN "secret_value::text ILIKE '%" \o like_val \o "%'"
      ELSE "(secret_key ILIKE '%" \o like_key
           \o "%' AND secret_value::text ILIKE '%" \o like_val
           \o "%' OR secret_value @> '{\"" \o json_key \o "\": \"" \o json_val
           \o "\"}')"

render_key_value(pair) ==
  LET iter == filter_non_ws(pair.inner) IN
  IF Len(iter) < 1 THEN InternalError("Missing key in key_value rule")
  ELSE IF Len(iter) < 2 THEN InternalError("Missing value in key_value rule")
  ELSE
    LET key_rule_pair == iter[1]
        value_rule_pair == iter[2]
    IN
    IF Len(key_rule_pair.inner) = 0
    THEN InternalError("Missing inner pair for key rule")
    ELSE
      LET key_raw == raw_text(key_rule_pair.inner[1], "key") IN
      IF ~IsOk(key_raw) THEN key_raw
      ELSE IF Len(value_rule_pair.inner) = 0
      THEN InternalError("Missing inner pair for value rule")
      ELSE
        LET val_raw == raw_text(value_rule_pair.inner[1], "value") IN
        IF ~IsOk(val_raw) THEN val_raw
        ELSE Ok(key_value_sql(key_raw.val, val_raw.val))

\* variant of text_search_sql: the second pattern embeds the text unescaped
text_search_sql_second_unescaped(t) ==
  "(secret_key ILIKE '%" \o escape_sql_like(t)
  \o "%' OR secret_value::text ILIKE '%" \o t \o "%')"

\* the format! shared by Rule::phrase and Rule::term
text_search_sql(t) ==
  "(secret_key ILIKE '%" \o escape_sql_like(t)
  \o "%' OR secret_value::text ILIKE '%" \o escape_sql_like(t) \o "%')"

\* the unquoting inlined in Rule::phrase
phrase_text(s) ==
  IF Len(s) >= 2 /\ Char(s, 1) = "\"" /\ Char(s, Len(s)) = "\""
  THEN unescape(strip_quotes(s))
  ELSE s

\* the scan of Rule::not_expr: [has_not, target], target 0 when none is found
RECURSIVE not_scan(_, _, _)
not_scan(inner, i, has_not) ==
  IF i > Len(inner) THEN [has_not |-> has_not, target |-> 0]
  ELSE IF is_ws(inner[i]) THEN not_scan(inner, i + 1, has_not)
  ELSE IF inner[i].rule = "NOT_OP" THEN not_scan(inner, i + 1, TRUE)
  ELSE [has_not |-> has_not, target |-> i]

\* variant of join_parts: every list is joined with " AND "
join_parts_and_only(parts, sep) ==
  IF Len(parts) = 1 THEN parts[1] ELSE Join(parts, " AND ")

\* parts.len() == 1 ? parts.pop() : parts.join(sep)
join_parts(parts, sep) ==
  IF Len(parts) = 1 THEN parts[1] ELSE Join(parts, sep)

\* variant of not_sql: the operand is wrapped in parentheses
not_sql_parenthesized(has_not, expr_sql) ==
  IF has_not THEN "NOT (" \o expr_sql \o ")" ELSE expr_sql

\* variant of group_sql: no parentheses around an operand that has its own
group_sql_when_needed(inner_sql) ==
  IF Len(inner_sql) >= 2 /\ Char(inner_sql, 1) = "("
     /\ Char(inner_sql, Len(inner_sql)) = ")"
  THEN inner_sql
  ELSE "(" \o inner_sql \o ")"

\* if has_not { format!("NOT {}", expr_sql) } else { expr_sql }
not_sql(has_not, expr_sql) == IF has_not THEN "NOT " \o expr_sql ELSE expr_sql

\* format!("({})", inner_sql)
group_sql(inner_sql) == "(" \o inner_sql \o ")"

RECURSIVE parse_expression(_), collect_parts(_, _, _), render_list(_, _)

\* the `for p in inner` loop of Rule::or_expr and Rule::and_expr; `?` returns
\* the first error
collect_parts(inner, i, parts) ==
  IF i > Len(inner) THEN [kind |-> "Ok", parts |-> parts]
  ELSE IF is_sep(inner[i]) THEN collect_parts(inner, i + 1, parts)
  ELSE LET r == parse_expression(inner[i]) IN
       IF ~IsOk(r) THEN r
       ELSE collect_parts(inner, i + 1, Append(parts, r.val))

\* the body shared by Rule::or_expr (sep " OR ") and Rule::and_expr (" AND ")
render_list(pair, sep) ==
  LET first == next_non_ws(pair.inner, 1) IN
  IF first = 0 THEN Panic
  ELSE LET r == parse_expression(pair.inner[first]) IN
       IF ~IsOk(r) THEN r
       ELSE LET c == collect_parts(pair.inner, first + 1, <<r.val>>) IN
            IF ~IsOk(c) THEN c
            ELSE Ok(join_parts(c.parts, sep))

parse_expression(pair) ==
  CASE pair.rule = "expression" ->
         LET expr == next_non_ws(pair.inner, 1) IN
         IF expr = 0 THEN InternalError("Empty expression")
         ELSE parse_expression(pair.inner[expr])
    [] pair.rule = "or_expr" -> render_list(pair, " OR ")
    [] pair.rule = "and_expr" -> render_list(pair, " AND ")
    [] pair.rule = "not_expr" ->
         LET scan == not_scan(pair.inner, 1, FALSE) IN
         IF scan.target = 0 THEN InternalError("Missing NOT target")
         ELSE LET expr_sql == parse_expression(pair.inner[scan.target]) IN
              IF ~IsOk(expr_sql) THEN expr_sql
              ELSE Ok(not_sql(scan.has_not, expr_sql.val))
    [] pair.rule = "primary" ->
         IF Len(pair.inner) = 0 THEN Panic
         ELSE parse_expression(pair.inner[1])
    [] pair.rule = "grouped" ->
         LET inner_pair == next_non_ws(pair.inner, 1) IN
         IF inner_pair = 0 THEN Panic
         ELSE LET inner_sql == parse_expression(pair.inner[inner_pair]) IN
              IF ~IsOk(inner_sql) THEN inner_sql
              ELSE Ok(group_sql(inner_sql.val))
    [] pair.rule = "key_value" -> render_key_value(pair)
    [] pair.rule = "phrase" -> Ok(text_search_sql(phrase_text(pair.str)))
    [] pair.rule = "term" -> Ok(text_search_sql(pair.str))
    [] pair.rule = "EOI" -> Ok("")
    [] OTHER -> InternalError("Unexpected rule encountered: " \o pair.rule)

---------------------------------------------------------------------------
(* The grammar (grammar.pest), as a PEG over the characters of the query:  *)
(*                                                                         *)
(*   expression    = SOI or_expr EOI                                       *)
(*   or_expr       = and_expr (or_op and_expr)*                            *)
(*   and_expr      = not_expr (and_op? not_expr)*                          *)
(*   not_expr      = NOT_OP? primary                                       *)
(*   primary       = grouped | key_value | phrase | term                   *)
(*   grouped       = "(" or_expr ")"                                       *)
(*   key_value     = key ":" value        (no whitespace around ":")       *)
(*   key, value    = quoted_string | ident                                 *)
(*   phrase        = quoted_string                                         *)
(*   term          = ident                                                 *)
(*   quoted_string = '"' ( '\\' | '\"' | any character but '"' )* '"'      *)
(*   ident         = a maximal run of characters other than whitespace,    *)
(*                   ":", "(", ")" and the quote characters (" and '),     *)
(*                   that is not a reserved word                           *)
(*   and_op, or_op = the runs "AND", "OR";  NOT_OP = the run "NOT", or a   *)
(*                   "-" immediately before the primary                    *)
(*                                                                         *)
(* Whitespace may separate the elements of expression, or_expr, and_expr,  *)
(* grouped and follow the word NOT; each whitespace character is a         *)
(* WHITESPACE pair of the enclosing rule.  A parse is [ok, pos, pair]:     *)
(* pos the position after the match.                                       *)

WhitespaceChars == {" ", "\t"}

Reserved == {"AND", "OR", "NOT"}

\* variant of IsIdentChar: a space is an ident character
IsIdentChar_or_space(c) == c \notin {"\t", ":", "(", ")", "\"", "'"}

IsIdentChar(c) == c \notin WhitespaceChars \cup {":", "(", ")", "\"", "'"}

NoParse == [ok |-> FALSE, pos |-> 0, pair |-> Pair("none", "", <<>>)]

Parsed(pos, pair) == [ok |-> TRUE, pos |-> pos, pair |-> pair]

\* the position after the maximal run of ident characters starting at i
RECURSIVE RunEnd(_, _)
RunEnd(q, i) ==
  IF i <= Len(q) /\ IsIdentChar(Char(q, i)) THEN RunEnd(q, i + 1) ELSE i

\* WHITESPACE*: [pos, pairs]
RECURSIVE skip_ws(_, _, _)
skip_ws(q, i, pairs) ==
  IF i <= Len(q) /\ Char(q, i) \in WhitespaceChars
  THEN skip_ws(q, i + 1, Append(pairs, Pair("WHITESPACE", Char(q, i), <<>>)))
  ELSE [pos |-> i, pairs |-> pairs]

\* the run at i is exactly the word w
keyword_at(q, i, w) == RunEnd(q, i) = i + Len(w) /\ SubSeq(q, i, i + Len(w) - 1) = w

ident_of(e, text) ==
  IF Len(text) > 0 /\ text \notin Reserved
  THEN Parsed(e, Pair("ident", text, <<>>))
  ELSE NoParse

ident(q, i) == ident_of(RunEnd(q, i), SubSeq(q, i, RunEnd(q, i) - 1))

\* the position of the closing quote of a quoted string whose content starts
\* at j, 0 when the string is unterminated
RECURSIVE closing_quote(_, _)
closing_quote(q, j) ==
  IF j > Len(q) THEN 0
  ELSE IF StartsWithAt(q, j, "\\\\") \/ StartsWithAt(q, j, "\\\"")
  THEN closing_quote(q, j + 2)
  ELSE IF Char(q, j) = "\"" THEN j
  ELSE closing_quote(q, j + 1)

quoted_string_to(q, i, c) ==
  IF c = 0 THEN NoParse
  ELSE Parsed(c + 1, Pair("quoted_string", SubSeq(q, i, c), <<>>))

quoted_string(q, i) ==
  IF i <= Len(q) /\ Char(q, i) = "\""
  THEN quoted_string_to(q, i, closing_quote(q, i + 1))
  ELSE NoParse

\* an ordered choice: the first alternative that matched
first_ok(alternatives) ==
  IF \E n \in DOMAIN alternatives : alternatives[n].ok
  THEN alternatives[CHOOSE n \in DOMAIN alternatives :
                      /\ alternatives[n].ok
                      /\ \A m \in 1..(n - 1) : ~alternatives[m].ok]
  ELSE NoParse

\* quoted_string | ident
string_or_ident(q, i) == first_ok(<<quoted_string(q, i), ident(q, i)>>)

key_value_of(q, i, k, v) ==
  IF ~v.ok THEN NoParse
  ELSE Parsed(v.pos,
         Pair("key_value", SubSeq(q, i, v.pos - 1),
              << Pair("key", k.pair.str, <<k.pair>>),
                 Pair("value", v.pair.str, <<v.pair>>) >>))

key_value_after_key(q, i, k) ==
  IF ~k.ok \/ k.pos > Len(q) \/ Char(q, k.pos) # ":" THEN NoParse
  ELSE key_value_of(q, i, k, string_or_ident(q, k.pos + 1))

key_value(q, i) == key_value_after_key(q, i, string_or_ident(q, i))

\* a rule that wraps one matched token: phrase, term, primary
wrap(rule, s) ==
  IF s.ok THEN Parsed(s.pos, Pair(rule, s.pair.str, <<s.pair>>)) ELSE NoParse

phrase(q, i) == wrap("phrase", quoted_string(q, i))

term(q, i) == wrap("term", ident(q, i))

\* the pair of a list rule from its [pos, pairs]
list_pair(rule, q, i, r) == Parsed(r.pos, Pair(rule, SubSeq(q, i, r.pos - 1), r.pairs))

negated(q, i, op, ws, p) ==
  IF p.ok
  THEN Parsed(p.pos, Pair("not_expr", SubSeq(q, i, p.pos - 1),
                          <<Pair("NOT_OP", op, <<>>)>> \o ws \o <<p.pair>>))
  ELSE NoParse

grouped_end(q, i, w1, e, w2) ==
  IF w2.pos <= Len(q) /\ Char(q, w2.pos) = ")"
  THEN Parsed(w2.pos + 1,
         Pair("grouped", SubSeq(q, i, w2.pos), w1.pairs \o <<e.pair>> \o w2.pairs))
  ELSE NoParse

RECURSIVE or_expr(_, _), or_rest(_, _, _), and_expr(_, _), and_rest(_, _, _),
          not_expr(_, _), primary(_, _), grouped(_, _)

grouped_close(q, i, w1, e) ==
  IF ~e.ok THEN NoParse ELSE grouped_end(q, i, w1, e, skip_ws(q, e.pos, <<>>))

grouped_inner(q, i, w1) == grouped_close(q, i, w1, or_expr(q, w1.pos))

grouped(q, i) ==
  IF i <= Len(q) /\ Char(q, i) = "("
  THEN grouped_inner(q, i, skip_ws(q, i + 1, <<>>))
  ELSE NoParse

primary(q, i) ==
  wrap("primary",
       first_ok(<<grouped(q, i), key_value(q, i), phrase(q, i), term(q, i)>>))

not_after_ws(q, i, w) == negated(q, i, "NOT", w.pairs, primary(q, w.pos))

not_expr(q, i) ==
  IF i <= Len(q) /\ Char(q, i) = "-"
  THEN negated(q, i, "-", <<>>, primary(q, i + 1))
  ELSE IF keyword_at(q, i, "NOT")
  THEN not_after_ws(q, i, skip_ws(q, i + 3, <<>>))
  ELSE wrap("not_expr", primary(q, i))

\* one repetition of (and_op? not_expr)*: seps are the pairs before the operand
and_rest_operand(q, i, pairs, seps, n) ==
  IF n.ok THEN and_rest(q, n.pos, pairs \o seps \o <<n.pair>>)
  ELSE [pos |-> i, pairs |-> pairs]

and_rest_op(q, i, pairs, w1, w2) ==
  and_rest_operand(q, i, pairs,
                   w1.pairs \o <<Pair("and_op", "AND", <<>>)>> \o w2.pairs,
                   not_expr(q, w2.pos))

and_rest_ws(q, i, pairs, w1) ==
  IF keyword_at(q, w1.pos, "AND")
  THEN and_rest_op(q, i, pairs, w1, skip_ws(q, w1.pos + 3, <<>>))
  ELSE and_rest_operand(q, i, pairs, w1.pairs, not_expr(q, w1.pos))

\* (and_op? not_expr)*: [pos, pairs], the pairs of the repetitions that matched
and_rest(q, i, pairs) == and_rest_ws(q, i, pairs, skip_ws(q, i, <<>>))

and_expr_first(q, i, n) ==
  IF ~n.ok THEN NoParse
  ELSE list_pair("and_expr", q, i, and_rest(q, n.pos, <<n.pair>>))

and_expr(q, i) == and_expr_first(q, i, not_expr(q, i))

\* one repetition of (or_op and_expr)*
or_rest_operand(q, i, pairs, seps, a) ==
  IF a.ok THEN or_rest(q, a.pos, pairs \o seps \o <<a.pair>>)
  ELSE [pos |-> i, pairs |-> pairs]

or_rest_op(q, i, pairs, w1, w2) ==
  or_rest_operand(q, i, pairs,
                  w1.pairs \o <<Pair("or_op", "OR", <<>>)>> \o w2.pairs,
                  and_expr(q, w2.pos))

or_rest_ws(q, i, pairs, w1) ==
  IF keyword_at(q, w1.pos, "OR")
  THEN or_rest_op(q, i, pairs, w1, skip_ws(q, w1.pos + 2, <<>>))
  ELSE [pos |-> i, pairs |-> pairs]

\* (or_op and_expr)*
or_rest(q, i, pairs) == or_rest_ws(q, i, pairs, skip_ws(q, i, <<>>))

or_expr_first(q, i, a) ==
  IF ~a.ok THEN NoParse
  ELSE list_pair("or_expr", q, i, or_rest(q, a.pos, <<a.pair>>))

or_expr(q, i) == or_expr_first(q, i, and_expr(q, i))

expression_end(q, e, w) ==
  IF w.pos = Len(q) + 1
  THEN [ok |-> TRUE,
        pairs |-> << Pair("expression", q,
                          <<e.pair>> \o w.pairs \o <<Pair("EOI", "", <<>>)>>) >>]
  ELSE [ok |-> FALSE, pairs |-> <<>>]

\* variant of expression: the input after the matched or_expr is not read
expression_prefix(q, e) ==
  IF ~e.ok THEN [ok |-> FALSE, pairs |-> <<>>]
  ELSE [ok |-> TRUE,
        pairs |-> << Pair("expression", q, <<e.pair, Pair("EOI", "", <<>>)>>) >>]

expression(q, e) ==
  IF ~e.ok THEN [ok |-> FALSE, pairs |-> <<>>]
  ELSE expression_end(q, e, skip_ws(q, e.pos, <<>>))

\* QueryParser::parse(Rule::expression, q): [ok, pairs]
QueryParser_parse(q) == expression(q, or_expr(q, 1))

---------------------------------------------------------------------------
(* query_to_sql: [res, parsed, pairs]; parsed tells whether                *)
(* QueryParser::parse ran, pairs is what it returned                       *)

\* the match on the result of QueryParser::parse
render_parsed(p) ==
  IF p.ok
  THEN IF Len(p.pairs) = 0
       THEN [res |-> InternalError("Empty parse tree"), parsed |-> TRUE,
             pairs |-> p.pairs]
       ELSE [res |-> parse_expression(p.pairs[1]), parsed |-> TRUE,
             pairs |-> p.pairs]
  ELSE [res |-> SyntaxError, parsed |-> TRUE, pairs |-> <<>>]

compile_trimmed(q) ==
  IF Len(q) = 0 THEN [res |-> Ok("TRUE"), parsed |-> FALSE, pairs |-> <<>>]
  ELSE render_parsed(QueryParser_parse(q))

\* variant of query_to_sql: the emptiness test reads the untrimmed argument
query_to_sql_untrimmed(s) ==
  IF Len(s) = 0 THEN [res |-> Ok("TRUE"), parsed |-> FALSE, pairs |-> <<>>]
  ELSE render_parsed(QueryParser_parse(Trim(s)))

query_to_sql(s) == compile_trimmed(Trim(s))

---------------------------------------------------------------------------
(* The queries the compiler is called with *)

MaxLexemes == 3
MaxNest == 2
MaxChain == 3
MaxQuoted == 4
MaxEscaped == 3

RECURSIVE Concat(_)
Concat(parts) == IF Len(parts) = 0 THEN "" ELSE parts[1] \o Concat(Tail(parts))

\* every string of at most MaxLexemes lexemes
Lexemes == {"a", "'", "\"", "\\", "_", ":", "(", ")", "-", " ", "\t", "OR"}

LexemeQueries ==
  UNION { {Concat(f) : f \in [1..n -> Lexemes]} : n \in 0..MaxLexemes }

\* atoms: terms, phrases, generic and schema-field key:value pairs
Atoms ==
  { "a", "x_%",
    "\"p q\"", "\"it's \\\"so\\\" (\\\\)\"",
    "k:v", "\"k's\":\"50%_\\\\ \\\"v\\\"\"",
    "secret_key:v_1", "secret_value:\"a'b c\"", "\"secret_key\":v" }

\* atoms under at most MaxNest negations and groups
RECURSIVE Nested(_)
Nested(n) ==
  IF n = 0 THEN Atoms
  ELSE LET inner == Nested(n - 1) IN
       inner \cup {"-" \o x : x \in inner} \cup {"NOT " \o x : x \in inner}
             \cup {"(" \o x \o ")" : x \in inner}

NestedQueries == Nested(MaxNest)

\* chains of at most MaxChain operands joined by AND, OR or adjacency
ChainItems == {"a", "k:v", "-secret_key:s", "(b)"}
ChainOps == {" AND ", " OR ", " "}

RECURSIVE Chains(_)
Chains(n) ==
  IF n = 1 THEN ChainItems
  ELSE LET shorter == Chains(n - 1) IN
       shorter \cup {c \o op \o x : c \in shorter, op \in ChainOps, x \in ChainItems}

ChainQueries == Chains(MaxChain)

\* queries with an empty key or value, an unbalanced parenthesis, a dangling
\* operator, an unterminated string or two adjacent operators
MalformedItems == {"a", "a:b", "c:d", "\"p q\""}

MalformedQueries ==
  UNION { {x \o ":", ":" \o x, "(" \o x, x \o ")", "((" \o x \o ")",
           "\"" \o x, x \o " \"b", x \o " k:\"v\\\""} : x \in MalformedItems }
  \cup {x \o " " \o o : x \in MalformedItems, o \in {"AND", "OR", "NOT"}}
  \cup {x \o " " \o o1 \o " " \o o2 \o " " \o y :
          x \in MalformedItems, y \in MalformedItems,
          o1 \in {"AND", "OR"}, o2 \in {"AND", "OR"}}

\* quoted strings, as a phrase and as a value, whose content is at most
\* MaxQuoted characters out of backslash, double quote and a letter
QuotedContents ==
  UNION { {Concat(f) : f \in [1..n -> {"\\", "\"", "a"}]} : n \in 0..MaxQuoted }

QuotedQueries ==
  UNION { {"\"" \o c \o "\"", "k:\"" \o c \o "\""} : c \in QuotedContents }

\* terms and schema-field values of at most MaxEscaped characters out of the
\* characters that LIKE escapes and a letter
EscapedTexts ==
  UNION { {Concat(f) : f \in [1..n -> {"\\", "%", "_", "a"}]} : n \in 1..MaxEscaped }

EscapedQueries == UNION { {t, "secret_key:" \o t} : t \in EscapedTexts }

\* negations of negations, and the word NOT inside quoted text
NegationQueries ==
  { "-(-a)", "NOT (NOT a)", "-(NOT (-k:v))", "NOT -a", "--a", "NOT NOT a",
    "\"NOT x\"", "-\"NOT x\"", "\"' NOT '\"" }

Inputs ==
  LexemeQueries \cup NestedQueries \cup ChainQueries \cup MalformedQueries
    \cup QuotedQueries \cup EscapedQueries \cup NegationQueries

---------------------------------------------------------------------------
(* The compiler as a state machine: one call of query_to_sql per behaviour *)

NoResult == [kind |-> "none", val |-> ""]

Init ==
  /\ raw \in Inputs
  /\ pc = "call"
  /\ result = NoResult
  /\ parse_tree = <<>>
  /\ parser_invoked = FALSE
  /\ secrets = {}
  /\ request = [handler |-> "none"]
  /\ response = [status |-> 0, body |-> ""]
  /\ executed = <<>>
  /\ calls = <<>>
  /\ returned = {}
  /\ written = {}

QueryToSql ==
  /\ pc = "call"
  /\ \E r \in {query_to_sql(raw)} :
       /\ result' = r.res
       /\ parse_tree' = r.pairs
       /\ parser_invoked' = r.parsed
  /\ pc' = "done"
  /\ UNCHANGED <<raw, secrets, request, response, executed, calls, returned, written>>

Next == QueryToSql

Spec == Init /\ [][Next]_vars

---------------------------------------------------------------------------
(* The secrets table: rows [project_key, secret_key, secret_value], at most *)
(* one per (project_key, secret_key).  A JSON value is a string or an       *)
(* object with one string member.                                          *)

JsonString(s) == [type |-> "string", str |-> s]
JsonObject(k, v) == [type |-> "object", key |-> k, val |-> v]

Row(project, key, value) ==
  [project_key |-> project, secret_key |-> key, secret_value |-> value]

\* the statements of the queries map, by the binds they take
PgSelectValue(table, secret_key, project_key) ==
  {row.secret_value : row \in
     {r \in table : r.secret_key = secret_key /\ r.project_key = project_key}}

PgUpsert(table, project_key, secret_key, value) ==
  {r \in table : ~(r.project_key = project_key /\ r.secret_key = secret_key)}
    \cup {Row(project_key, secret_key, value)}

\* variant of PgDelete: the project is not part of the condition
PgDelete_any_project(table, secret_key, project_key) ==
  {r \in table : r.secret_key # secret_key}

PgDelete(table, secret_key, project_key) ==
  {r \in table : ~(r.secret_key = secret_key /\ r.project_key = project_key)}

---------------------------------------------------------------------------
(* PostgreSQL's reading of the search statement.  The condition after      *)
(* WHERE is cut into tokens (single-quoted literals with '' for a quote,   *)
(* parentheses, words, operators), parsed with PostgreSQL's precedence     *)
(* (comparison, NOT, AND, OR) and evaluated on a row.  What the model does *)
(* not read (comments, other operators, quoted identifiers) is a statement *)
(* error.                                                                  *)

\* the positions of sql outside single-quoted literals: those with an even
\* number of quote characters before them that are not quote characters
OutsideLiterals(sql) ==
  LET quotes == {j \in 1..Len(sql) : Char(sql, j) = "'"} IN
  {i \in 1..Len(sql) \ quotes : Cardinality({j \in quotes : j < i}) % 2 = 0}

CharsOf(s) == {Char(s, i) : i \in 1..Len(s)}

SqlLetters == "abcdefghijklmnopqrstuvwxyz"
SqlCapitals == "ABCDEFGHIJKLMNOPQRSTUVWXYZ"
SqlWordChars ==
  CharsOf(SqlLetters) \cup CharsOf(SqlCapitals) \cup CharsOf("0123456789_$:.")
SqlOperatorChars == CharsOf("=@<>!~+-*/%^&|#?")
SqlSpaceChars == {" ", "\t"}

ToLower(c) ==
  LET at == {i \in 1..Len(SqlCapitals) : Char(SqlCapitals, i) = c} IN
  IF at = {} THEN c ELSE Char(SqlLetters, CHOOSE i \in at : TRUE)

RECURSIVE LowerStr(_)
LowerStr(s) == IF Len(s) = 0 THEN "" ELSE ToLower(Char(s, 1)) \o LowerStr(From(s, 2))

SqlClassAt(sql, outside, i) ==
  IF i \notin outside THEN "literal"
  ELSE IF Char(sql, i) \in SqlSpaceChars THEN "space"
  ELSE IF Char(sql, i) \in {"(", ")"} THEN Char(sql, i)
  ELSE IF Char(sql, i) \in SqlWordChars THEN "word"
  ELSE IF Char(sql, i) \in SqlOperatorChars THEN "operator"
  ELSE "other"

\* the class of every position, as a sequence
SqlClasses(sql) ==
  LET outside == OutsideLiterals(sql) IN
  SubSeq([i \in 1..Len(sql) |-> SqlClassAt(sql, outside, i)], 1, Len(sql))

\* the last position of the run of one class that starts at i
SqlRunEnd(cls, i) ==
  IF cls[i] \in {"(", ")"} THEN i
  ELSE CHOOSE j \in i..Len(cls) :
         /\ j = Len(cls) \/ cls[j + 1] # cls[i]
         /\ \A k \in i..j : cls[k] = cls[i]

SqlToken(sql, cls, i, e) ==
  IF cls[i] = "literal"
  THEN [type |-> "literal", text |-> Replace(SubSeq(sql, i + 1, e - 1), "''", "'")]
  ELSE IF cls[i] = "word"
  THEN [type |-> "word", text |-> LowerStr(SubSeq(sql, i, e))]
  ELSE [type |-> cls[i], text |-> SubSeq(sql, i, e)]

RECURSIVE SqlTokensFrom(_, _, _), SqlTokensRun(_, _, _, _)
SqlTokensFrom(sql, cls, i) ==
  IF i > Len(sql) THEN <<>> ELSE SqlTokensRun(sql, cls, i, SqlRunEnd(cls, i))

SqlTokensRun(sql, cls, i, e) ==
  IF cls[i] = "space" THEN SqlTokensFrom(sql, cls, e + 1)
  ELSE <<SqlToken(sql, cls, i, e)>> \o SqlTokensFrom(sql, cls, e + 1)

SqlTokens(sql) == SqlTokensFrom(sql, SqlClasses(sql), 1)

\* jsonb's text form
JsonStringText(s) == "\"" \o Replace(Replace(s, "\\", "\\\\"), "\"", "\\\"") \o "\""

JsonbText(v) ==
  IF v.type = "string" THEN JsonStringText(v.str)
  ELSE "{" \o JsonStringText(v.key) \o ": " \o JsonStringText(v.val) \o "}"

\* the closing quote of the JSON string whose body starts at i, 0 if none
RECURSIVE JsonStringEnd(_, _)
JsonStringEnd(s, i) ==
  IF i > Len(s) THEN 0
  ELSE IF Char(s, i) = "\"" THEN i
  ELSE IF Char(s, i) = "\t" THEN 0
  ELSE IF Char(s, i) # "\\" THEN JsonStringEnd(s, i + 1)
  ELSE IF i < Len(s) /\ Char(s, i + 1) \in {"\\", "\""} THEN JsonStringEnd(s, i + 2)
  ELSE 0

RECURSIVE JsonUnescape(_)
JsonUnescape(body) ==
  IF Len(body) = 0 THEN ""
  ELSE IF Char(body, 1) = "\\" THEN Char(body, 2) \o JsonUnescape(From(body, 3))
  ELSE Char(body, 1) \o JsonUnescape(From(body, 2))

NoJson == [type |-> "invalid"]

\* a jsonb literal of the form {"key": "value"}
JsonMemberValue(s, k, i, e) ==
  IF e = 0 \/ From(s, e) # "\"}" THEN NoJson
  ELSE JsonObject(k, JsonUnescape(SubSeq(s, i, e - 1)))

JsonMember(s, e) ==
  IF e = 0 \/ ~StartsWithAt(s, e, "\": \"") THEN NoJson
  ELSE JsonMemberValue(s, JsonUnescape(SubSeq(s, 3, e - 1)), e + 4,
                       JsonStringEnd(s, e + 4))

JsonbIn(s) ==
  IF ~StartsWithAt(s, 1, "{\"") THEN NoJson ELSE JsonMember(s, JsonStringEnd(s, 3))

\* jsonb @> jsonb
JsonbContains(v, w) == v = w

\* LIKE: % any run, _ any one character, backslash the escape
RECURSIVE LikeMatch(_, _, _, _)
LikeMatch(t, i, p, j) ==
  IF j > Len(p) THEN i > Len(t)
  ELSE IF Char(p, j) = "%"
  THEN LikeMatch(t, i, p, j + 1) \/ (i <= Len(t) /\ LikeMatch(t, i + 1, p, j))
  ELSE IF i > Len(t) THEN FALSE
  ELSE IF Char(p, j) = "_" THEN LikeMatch(t, i + 1, p, j + 1)
  ELSE IF Char(p, j) = "\\"
  THEN /\ j < Len(p)
       /\ Char(t, i) = Char(p, j + 1)
       /\ LikeMatch(t, i + 1, p, j + 2)
  ELSE Char(t, i) = Char(p, j) /\ LikeMatch(t, i + 1, p, j + 1)

\* a pattern that ends with the escape character is an error
RECURSIVE LikeEndsWithEscape(_, _)
LikeEndsWithEscape(p, j) ==
  IF j > Len(p) THEN FALSE
  ELSE IF Char(p, j) # "\\" THEN LikeEndsWithEscape(p, j + 1)
  ELSE IF j = Len(p) THEN TRUE
  ELSE LikeEndsWithEscape(p, j + 2)

ILike(t, p) == LikeMatch(LowerStr(t), 1, LowerStr(p), 1)

\* the value of an operand token on a row: a literal, a text, a jsonb
SqlNoValue == [type |-> "error", v |-> ""]

SqlColumn(q, name) ==
  IF name = "secret_key" THEN [type |-> "text", v |-> q.row.secret_key]
  ELSE IF name = "project_key" THEN [type |-> "text", v |-> q.row.project_key]
  ELSE IF name = "secret_value::text"
  THEN [type |-> "text", v |-> JsonbText(q.row.secret_value)]
  ELSE IF name = "secret_value" THEN [type |-> "jsonb", v |-> q.row.secret_value]
  ELSE IF name = "$1" THEN [type |-> "text", v |-> q.bind]
  ELSE SqlNoValue

SqlOperandValue(q, i) ==
  IF i > Len(q.toks) THEN SqlNoValue
  ELSE IF q.toks[i].type = "literal" THEN [type |-> "literal", v |-> q.toks[i].text]
  ELSE IF q.toks[i].type = "word" THEN SqlColumn(q, q.toks[i].text)
  ELSE SqlNoValue

SqlFail == [ok |-> FALSE, pos |-> 0, val |-> FALSE]
SqlBool(pos, val) == [ok |-> TRUE, pos |-> pos, val |-> val]

IsText(x) == x.type \in {"text", "literal"}

SqlCompare(op, l, r, pos) ==
  IF op.type = "operator" /\ op.text = "=" /\ IsText(l) /\ IsText(r)
  THEN SqlBool(pos, l.v = r.v)
  ELSE IF op.type = "word" /\ op.text = "ilike" /\ IsText(l) /\ IsText(r)
  THEN IF LikeEndsWithEscape(r.v, 1) THEN SqlFail ELSE SqlBool(pos, ILike(l.v, r.v))
  ELSE IF op.type = "operator" /\ op.text = "@>"
          /\ l.type = "jsonb" /\ r.type = "literal"
  THEN IF JsonbIn(r.v).type = "invalid" THEN SqlFail
       ELSE SqlBool(pos, JsonbContains(l.v, JsonbIn(r.v)))
  ELSE SqlFail

IsWord(q, i, w) ==
  i <= Len(q.toks) /\ q.toks[i].type = "word" /\ q.toks[i].text = w

IsType(q, i, t) == i <= Len(q.toks) /\ q.toks[i].type = t

sql_join(a, b, is_or) ==
  IF ~b.ok THEN SqlFail
  ELSE SqlBool(b.pos, IF is_or THEN a.val \/ b.val ELSE a.val /\ b.val)

sql_negate(a) == IF a.ok THEN SqlBool(a.pos, ~a.val) ELSE SqlFail

sql_close(q, a) ==
  IF a.ok /\ IsType(q, a.pos, ")") THEN SqlBool(a.pos + 1, a.val) ELSE SqlFail

sql_comparison(q, i) ==
  IF i + 2 > Len(q.toks) THEN SqlFail
  ELSE SqlCompare(q.toks[i + 1], SqlOperandValue(q, i),
                  SqlOperandValue(q, i + 2), i + 3)

\* q is [toks, row, bind]; a result is [ok, pos, val]
RECURSIVE sql_or(_, _), sql_or_rest(_, _), sql_and(_, _), sql_and_rest(_, _)
RECURSIVE sql_not(_, _), sql_predicate(_, _)

sql_predicate(q, i) ==
  IF IsType(q, i, "(") THEN sql_close(q, sql_or(q, i + 1))
  ELSE IF IsWord(q, i, "true") THEN SqlBool(i + 1, TRUE)
  ELSE IF IsWord(q, i, "false") THEN SqlBool(i + 1, FALSE)
  ELSE sql_comparison(q, i)

sql_not(q, i) ==
  IF IsWord(q, i, "not") THEN sql_negate(sql_not(q, i + 1))
  ELSE sql_predicate(q, i)

sql_and_rest(q, a) ==
  IF a.ok /\ IsWord(q, a.pos, "and")
  THEN sql_join(a, sql_and(q, a.pos + 1), FALSE) ELSE a

sql_and(q, i) == sql_and_rest(q, sql_not(q, i))

sql_or_rest(q, a) ==
  IF a.ok /\ IsWord(q, a.pos, "or")
  THEN sql_join(a, sql_or(q, a.pos + 1), TRUE) ELSE a

sql_or(q, i) == sql_or_rest(q, sql_and(q, i))

sql_whole(toks, a) == [ok |-> a.ok /\ a.pos = Len(toks) + 1, val |-> a.val]

\* the condition on one row: [ok, val]
PgCondition(toks, row, bind) ==
  sql_whole(toks, sql_or([toks |-> toks, row |-> row, bind |-> bind], 1))

PgError == [ok |-> FALSE, rows |-> {}]

\* a row no table holds, on which an empty table's statement is still read
ProbeRow == Row("", "", JsonString(""))

\* read is the set of <<row, condition on row>>
PgSelected(read, table) ==
  IF \E r \in read : ~r[2].ok THEN PgError
  ELSE [ok |-> TRUE, rows |-> {r[1] : r \in {x \in read : x[2].val}} \cap table]

PgSelectRows(toks, bind, table) ==
  PgSelected({<<row, PgCondition(toks, row, bind)>> : row \in table \cup {ProbeRow}},
             table)

SearchSelect == "SELECT secret_key, project_key, secret_value FROM secrets WHERE "

\* fetch_all of the search statement with $1 bound
PgFetchAll(sql, bind, table) ==
  IF ~StartsWithAt(sql, 1, SearchSelect) THEN PgError
  ELSE IF Cardinality({i \in 1..Len(sql) : Char(sql, i) = "'"}) % 2 # 0 THEN PgError
  ELSE PgSelectRows(SqlTokens(From(sql, Len(SearchSelect) + 1)), bind, table)

---------------------------------------------------------------------------
(* The HTTP handlers of lib.rs.  A request is in flight from Send to the   *)
(* handler's step, which runs the extractors in argument order, executes   *)
(* at most one statement and answers.  Bodies are well-formed JSON of the  *)
(* handler's shape; the database is reachable.                             *)

None == [some |-> FALSE]
Some(x) == [some |-> TRUE, val |-> x]

\* API_MASTER_KEY_READ, API_MASTER_KEY_WRITE
ReadKey == "test-api-key-read"
WriteKey == "test-api-key-write"

Queries ==
  [get_secret |->
     "SELECT secret_value FROM secrets WHERE secret_key = $1 AND project_key = $2",
   upsert_secret |->
     "INSERT INTO secrets (project_key, secret_key, secret_value) VALUES ($1, $2, $3::jsonb) ON CONFLICT (project_key, secret_key) DO UPDATE SET secret_value = EXCLUDED.secret_value",
   delete_secret |->
     "DELETE FROM secrets WHERE secret_key = $1 AND project_key = $2"]

Statement(sql, binds) == [sql |-> sql, binds |-> binds]

Projects == {"p1", "p2"}
SecretKeys == {"ab", "k"}
JsonValues == {JsonString("a"), JsonObject("k", "v")}

ApiKeyHeaders == {None, Some(ReadKey), Some(WriteKey), Some("wrong")}
ProjectHeaders == {None} \cup {Some(p) : p \in Projects}

\* what POST /search is asked: nothing, blank, a term, a pair, a schema
\* field, a quote, a quoted value that closes the literal, a syntax error
SearchQueries ==
  { "", " ", "a", "B", "k:v", "secret_key:A", "it's", "(",
    "secret_key:\"') OR (TRUE) OR ('a'='\"" }

SearchBodies ==
  {[query |-> q, project_key |-> p] :
     q \in {None} \cup {Some(s) : s \in SearchQueries},
     p \in {None, Some("p2")}}

NoBody == [empty |-> TRUE]

Request(handler, api_key, project, key, body) ==
  [handler |-> handler, api_key |-> api_key, project |-> project,
   key |-> key, body |-> body]

Requests ==
  {Request(h, a, p, k, NoBody) :
     h \in {"get_secret", "delete_secret"},
     a \in ApiKeyHeaders, p \in ProjectHeaders, k \in SecretKeys}
  \cup
  {Request("upsert_secret", a, p, "", [key |-> k, value |-> v]) :
     a \in ApiKeyHeaders, p \in ProjectHeaders, k \in SecretKeys, v \in JsonValues}
  \cup
  {Request("main_upsert_secret", a, p, "", [key |-> k, value |-> v]) :
     a \in ApiKeyHeaders, p \in ProjectHeaders, k \in SecretKeys, v \in JsonValues}
  \cup
  {Request("upsert_secret_by_path", a, p, k, [value |-> v]) :
     a \in ApiKeyHeaders, p \in ProjectHeaders, k \in SecretKeys, v \in JsonValues}
  \cup
  {Request("search_secrets", a, p, "", b) :
     a \in ApiKeyHeaders, p \in ProjectHeaders, b \in SearchBodies}

NoRequest == Request("none", None, None, "", NoBody)
NoResponse == [status |-> 0, body |-> ""]

ReadAuth(req) == req.api_key.some /\ req.api_key.val \in {ReadKey, WriteKey}
\* variant of WriteAuth: the read key is accepted as well
WriteAuth_read_key_too(req) == req.api_key.some /\ req.api_key.val \in {ReadKey, WriteKey}

WriteAuth(req) == req.api_key.some /\ req.api_key.val = WriteKey
ProjectKey(req) == req.project.some

Display(e) ==
  IF e.kind = "SyntaxError" THEN "Invalid query syntax: " \o e.val
  ELSE "Internal parser error: " \o e.val

Reply(status, body, table, statements) ==
  /\ response' = [status |-> status, body |-> body]
  /\ secrets' = table
  /\ executed' = statements

\* variant of Rejected: the project header is looked at first
Rejected_project_first(req, write) ==
  IF ~ProjectKey(req) THEN Reply(400, "Missing X-PROJECT-KEY", secrets, <<>>)
  ELSE IF write THEN Reply(401, "Write key invalid", secrets, <<>>)
  ELSE Reply(401, "Read key invalid", secrets, <<>>)

\* the rejection of the first extractor that fails
Rejected(req, write) ==
  IF write /\ ~WriteAuth(req) THEN Reply(401, "Write key invalid", secrets, <<>>)
  ELSE IF ~write /\ ~ReadAuth(req) THEN Reply(401, "Read key invalid", secrets, <<>>)
  ELSE Reply(400, "Missing X-PROJECT-KEY", secrets, <<>>)

Extracted(req, write) ==
  /\ IF write THEN WriteAuth(req) ELSE ReadAuth(req)
  /\ ProjectKey(req)

MissingQuery(name) ==
  Reply(500, "Query error: Missing query '" \o name \o "'", secrets, <<>>)

Handles(name) ==
  /\ pc = "received"
  /\ request.handler = name
  /\ pc' = "answered"
  /\ UNCHANGED <<request, raw, result, parse_tree, parser_invoked, calls, returned,
                 written>>

Send ==
  /\ pc = "idle"
  /\ request' \in Requests
  /\ response' = NoResponse
  /\ executed' = <<>>
  /\ pc' = "received"
  /\ UNCHANGED <<secrets, raw, result, parse_tree, parser_invoked, calls, returned,
                 written>>

get_secret_found(found, statement) ==
  IF found = {} THEN Reply(404, "Not found", secrets, <<statement>>)
  ELSE Reply(200, CHOOSE v \in found : TRUE, secrets, <<statement>>)

get_secret ==
  /\ Handles("get_secret")
  /\ IF ~Extracted(request, FALSE) THEN Rejected(request, FALSE)
     ELSE IF "get_secret" \notin DOMAIN Queries THEN MissingQuery("get_secret")
     ELSE get_secret_found(
            PgSelectValue(secrets, request.key, request.project.val),
            Statement(Queries.get_secret, <<request.key, request.project.val>>))

upsert(project, key, value) ==
  IF "upsert_secret" \notin DOMAIN Queries THEN MissingQuery("upsert_secret")
  ELSE Reply(204, "", PgUpsert(secrets, project, key, value),
             <<Statement(Queries.upsert_secret, <<project, key, value>>)>>)

upsert_secret ==
  /\ Handles("upsert_secret")
  /\ IF ~Extracted(request, TRUE) THEN Rejected(request, TRUE)
     ELSE upsert(request.project.val, request.body.key, request.body.value)

\* a value bound to a placeholder, with the type sqlx declares for it
BindText(s) == [sql_type |-> "text", v |-> s]
BindJson(v) == [sql_type |-> "jsonb", v |-> v]

\* the upsert statement of the queries map with binds at $1, $2, $3: the
\* columns project_key and secret_key take a text, $3::jsonb a jsonb
PgUpsertBound(table, binds) ==
  IF binds[1].sql_type = "text" /\ binds[2].sql_type = "text"
       /\ binds[3].sql_type = "jsonb"
  THEN [ok |-> TRUE, table |-> PgUpsert(table, binds[1].v, binds[2].v, binds[3].v)]
  ELSE [ok |-> FALSE, table |-> table]

main_upsert_done(done, statement) ==
  IF done.ok THEN Reply(204, "", done.table, <<statement>>)
  ELSE Reply(500, "DB error", done.table, <<statement>>)

\* main.rs: .bind(&payload.key).bind(&payload.value).bind(&project)
main_upsert(key, value, project) ==
  IF "upsert_secret" \notin DOMAIN Queries THEN MissingQuery("upsert_secret")
  ELSE main_upsert_done(
         PgUpsertBound(secrets, <<BindText(key), BindJson(value), BindText(project)>>),
         Statement(Queries.upsert_secret, <<key, value, project>>))

\* POST /secrets of the binary (main.rs)
main_upsert_secret ==
  /\ Handles("main_upsert_secret")
  /\ IF ~Extracted(request, TRUE) THEN Rejected(request, TRUE)
     ELSE main_upsert(request.body.key, request.body.value, request.project.val)

upsert_secret_by_path ==
  /\ Handles("upsert_secret_by_path")
  /\ IF ~Extracted(request, TRUE) THEN Rejected(request, TRUE)
     ELSE upsert(request.project.val, request.key, request.body.value)

delete_secret ==
  /\ Handles("delete_secret")
  /\ IF ~Extracted(request, TRUE) THEN Rejected(request, TRUE)
     ELSE IF "delete_secret" \notin DOMAIN Queries THEN MissingQuery("delete_secret")
     ELSE Reply(204, "", PgDelete(secrets, request.key, request.project.val),
                <<Statement(Queries.delete_secret,
                            <<request.key, request.project.val>>)>>)

unwrap_or_default(option) == IF option.some THEN option.val ELSE ""

search_sql(where_clause) ==
  SearchSelect \o "project_key = $1 AND (" \o where_clause \o ")"

search_rows(fetched, statement) ==
  IF fetched.ok THEN Reply(200, fetched.rows, secrets, <<statement>>)
  ELSE Reply(500, "Database error executing search", secrets, <<statement>>)

search_execute(sql, project) ==
  search_rows(PgFetchAll(sql, project, secrets), Statement(sql, <<project>>))

\* variant of search_compiled: a query that does not compile is searched as
\* the blank query
search_compiled_error_as_blank(compiled, project) ==
  IF compiled.kind = "Panic" THEN Reply(0, "handler panicked", secrets, <<>>)
  ELSE IF ~IsOk(compiled) THEN search_execute(search_sql("TRUE"), project)
  ELSE search_execute(search_sql(compiled.val), project)

search_compiled(compiled, project) ==
  IF compiled.kind = "Panic" THEN Reply(0, "handler panicked", secrets, <<>>)
  ELSE IF ~IsOk(compiled)
  THEN Reply(400, "Invalid search query syntax. Error details: " \o Display(compiled),
             secrets, <<>>)
  ELSE search_execute(search_sql(compiled.val), project)

search_secrets ==
  /\ Handles("search_secrets")
  /\ IF ~Extracted(request, FALSE) THEN Rejected(request, FALSE)
     ELSE search_compiled(query_to_sql(unwrap_or_default(request.body.query)).res,
                          request.project.val)

\* the key a write request addresses: the body's for POST, the path's otherwise
WrittenKey(req) ==
  IF req.handler \in {"upsert_secret", "main_upsert_secret"} THEN req.body.key
  ELSE req.key

\* the client's record of its writes once resp, the answer to req, is a 204
Recorded(log, req, resp) ==
  IF resp.status # 204 THEN log
  ELSE {w \in log : ~(w[1] = req.project.val /\ w[2] = WrittenKey(req))}
       \cup (IF req.handler = "delete_secret" THEN {}
             ELSE {<<req.project.val, WrittenKey(req), req.body.value>>})

\* the answer leaves the server
Deliver ==
  /\ pc = "answered"
  /\ written' = Recorded(written, request, response)
  /\ request' = NoRequest
  /\ response' = NoResponse
  /\ executed' = <<>>
  /\ pc' = "idle"
  /\ UNCHANGED <<secrets, raw, result, parse_tree, parser_invoked, calls, returned>>

InitServer ==
  /\ secrets = {}
  /\ request = NoRequest
  /\ response = NoResponse
  /\ executed = <<>>
  /\ calls = <<>>
  /\ returned = {}
  /\ written = {}
  /\ pc = "idle"
  /\ raw = ""
  /\ result = NoResult
  /\ parse_tree = <<>>
  /\ parser_invoked = FALSE

NextServer ==
  \/ Send
  \/ get_secret
  \/ upsert_secret
  \/ main_upsert_secret
  \/ upsert_secret_by_path
  \/ delete_secret
  \/ search_secrets
  \/ Deliver

SpecServer == InitServer /\ [][NextServer]_vars

---------------------------------------------------------------------------
(* The Err arm of search_secrets, on every value query_to_sql's return     *)
(* type has: what it returns for the request's query, and the              *)
(* InternalError values parse_expression builds on a tree that is not one  *)
(* of the grammar above (grammar.pest is not part of the sources, so the   *)
(* trees of the real parser are not known to be those).                    *)

OffGrammarTrees ==
  { Pair("expression", "", <<Pair("EOI", "", <<>>)>>),
    Pair("not_expr", "NOT", <<Pair("NOT_OP", "NOT", <<>>)>>),
    Pair("key_value", "k:", <<Pair("key", "k", <<Pair("ident", "k", <<>>)>>)>>),
    Pair("key_value", ":v", <<Pair("key", "", <<>>),
                              Pair("value", "v", <<Pair("ident", "v", <<>>)>>)>>),
    Pair("key", "k", <<Pair("ident", "k", <<>>)>>) }

InternalErrors == {parse_expression(tree) : tree \in OffGrammarTrees}

SearchRequests ==
  {req \in Requests : req.handler = "search_secrets" /\ Extracted(req, FALSE)}

SearchTables ==
  { {}, {Row("p1", "ab", JsonString("a")), Row("p2", "k", JsonObject("k", "v"))} }

InitSearchErrors ==
  /\ request \in SearchRequests
  /\ result \in {query_to_sql(unwrap_or_default(request.body.query)).res}
                  \cup InternalErrors
  /\ secrets \in SearchTables
  /\ response = NoResponse
  /\ executed = <<>>
  /\ calls = <<>>
  /\ returned = {}
  /\ written = {}
  /\ pc = "compiled"
  /\ raw = ""
  /\ parse_tree = <<>>
  /\ parser_invoked = FALSE

\* the match on query_to_sql's result and what follows it
SearchAnswer ==
  /\ pc = "compiled"
  /\ search_compiled(result, request.project.val)
  /\ pc' = "answered"
  /\ UNCHANGED <<request, raw, result, parse_tree, parser_invoked, calls, returned,
                 written>>

NextSearchErrors == SearchAnswer

SpecSearchErrors == InitSearchErrors /\ [][NextSearchErrors]_vars

---------------------------------------------------------------------------
(* Concurrent calls of query_to_sql.  A call is a function call on a       *)
(* thread: its argument and its locals (the trimmed text, the Pairs of the *)
(* parser, the value to return) are the thread's own; the function has no  *)
(* static.  The steps of a call are its statements; steps of different     *)
(* threads interleave freely.                                              *)

MaxCalls == 2

Threads == 1..MaxCalls

CallInputs == {" a ", "k:v -b", "a:", " \t"}

NotParsed == [ok |-> FALSE, pairs |-> <<>>]

IdleCall ==
  [pc |-> "idle", raw |-> "", trimmed |-> "", parsed |-> NotParsed,
   result |-> NoResult]

\* variant of parse_slot: every call keeps its Pairs in the first thread's
parse_slot_shared(t) == 1

\* `let mut pairs`: the Pairs are a local of the call
parse_slot(t) == t

\* variant of result_of: a value returned earlier is returned again
result_of_earlier(computed, earlier) ==
  IF earlier = {} THEN computed ELSE (CHOOSE p \in earlier : TRUE)[2]

\* the value a call returns is the one it computed
result_of(computed, earlier) == computed

Calling(t, at) ==
  /\ pc = "calls"
  /\ calls[t].pc = at
  /\ UNCHANGED <<raw, pc, result, parse_tree, parser_invoked,
                 secrets, request, response, executed, written>>

Call(t) ==
  /\ Calling(t, "idle")
  /\ \E s \in CallInputs :
       calls' = [calls EXCEPT ![t] = [IdleCall EXCEPT !.pc = "trim", !.raw = s]]
  /\ UNCHANGED returned

\* let trimmed = raw.trim(); if trimmed.is_empty() { return Ok("TRUE") }
TrimStep(t) ==
  /\ Calling(t, "trim")
  /\ \E q \in {Trim(calls[t].raw)} :
       calls' = [calls EXCEPT
                   ![t].trimmed = q,
                   ![t].result = IF Len(q) = 0
                                 THEN result_of(Ok("TRUE"), returned)
                                 ELSE NoResult,
                   ![t].pc = IF Len(q) = 0 THEN "return" ELSE "parse"]
  /\ UNCHANGED returned

\* QueryParser::parse(Rule::expression, trimmed)
ParseStep(t) ==
  /\ Calling(t, "parse")
  /\ calls' = [calls EXCEPT
                 ![parse_slot(t)].parsed = QueryParser_parse(calls[t].trimmed),
                 ![t].pc = "render"]
  /\ UNCHANGED returned

\* the match on the parse result
RenderStep(t) ==
  /\ Calling(t, "render")
  /\ calls' = [calls EXCEPT
                 ![t].result =
                   result_of(render_parsed(calls[parse_slot(t)].parsed).res, returned),
                 ![t].pc = "return"]
  /\ UNCHANGED returned

Return(t) ==
  /\ Calling(t, "return")
  /\ returned' = returned \cup {<<calls[t].raw, calls[t].result>>}
  /\ calls' = [calls EXCEPT ![t] = IdleCall]

InitCalls ==
  /\ calls = [t \in Threads |-> IdleCall]
  /\ returned = {}
  /\ written = {}
  /\ pc = "calls"
  /\ raw = ""
  /\ result = NoResult
  /\ parse_tree = <<>>
  /\ parser_invoked = FALSE
  /\ secrets = {}
  /\ request = NoRequest
  /\ response = NoResponse
  /\ executed = <<>>

NextCalls ==
  \E t \in Threads :
    \/ Call(t)
    \/ TrimStep(t)
    \/ ParseStep(t)
    \/ RenderStep(t)
    \/ Return(t)

SpecCalls == InitCalls /\ [][NextCalls]_vars

---------------------------------------------------------------------------
(* What the properties are stated with *)

Range(seq) == {seq[i] : i \in DOMAIN seq}

\* a pair and all its descendants
RECURSIVE AllPairs(_)
AllPairs(pair) == {pair} \cup UNION {AllPairs(c) : c \in Range(pair.inner)}

\* the pairs of the parse tree of the current call
CallPairs == IF Len(parse_tree) = 0 THEN {} ELSE AllPairs(parse_tree[1])

Accepted == pc = "done" /\ IsOk(result)

OnlyWhitespace(s) == \A i \in 1..Len(s) : Char(s, i) \in {" ", "\t"}

Contains(s, sub) ==
  \E i \in 1..(Len(s) - Len(sub) + 1) : SubSeq(s, i, i + Len(sub) - 1) = sub

Count(s, c) == Cardinality({i \in 1..Len(s) : Char(s, i) = c})

\* each character of special preceded by one backslash, in one pass
RECURSIVE EscapeChars(_, _, _)
EscapeChars(s, i, special) ==
  IF i > Len(s) THEN ""
  ELSE (IF Char(s, i) \in special THEN "\\" \o Char(s, i) ELSE Char(s, i))
       \o EscapeChars(s, i + 1, special)

likeEscape(s) == EscapeChars(s, 1, {"\\", "%", "_"})

jsonEscape(s) == EscapeChars(s, 1, {"\\", "\""})

\* each single quote doubled
RECURSIVE sqlQuote(_)
sqlQuote(s) ==
  IF Len(s) = 0 THEN ""
  ELSE (IF Char(s, 1) = "'" THEN "''" ELSE Char(s, 1)) \o sqlQuote(Tail(s))

\* s[i..last] with the escape pairs \\ and \" read left to right
RECURSIVE UnescapeScan(_, _, _)
UnescapeScan(s, i, last) ==
  IF i > last THEN ""
  ELSE IF i < last /\ Char(s, i) = "\\" /\ Char(s, i + 1) \in {"\\", "\""}
  THEN Char(s, i + 1) \o UnescapeScan(s, i + 2, last)
  ELSE Char(s, i) \o UnescapeScan(s, i + 1, last)

\* the logical text of a token: a quoted string without its outer quotes and
\* escapes, a bare identifier as written
LogicalText(str) ==
  IF Len(str) >= 2 /\ Char(str, 1) = "\"" THEN UnescapeScan(str, 2, Len(str) - 1)
  ELSE str

KeyOf(kv) == LogicalText(kv.inner[1].str)
ValOf(kv) == LogicalText(kv.inner[2].str)

SchemaFields == {"secret_key", "secret_value"}

IsGenericKeyValue(p) == p.rule = "key_value" /\ KeyOf(p) \notin SchemaFields

\* the clauses of the rendering table; Q is applied to every embedded text
TextClause(t, Q(_)) ==
  "(secret_key ILIKE '%" \o Q(likeEscape(t))
  \o "%' OR secret_value::text ILIKE '%" \o Q(likeEscape(t)) \o "%')"

ComboClause(k, v, Q(_)) ==
  "(secret_key ILIKE '%" \o Q(likeEscape(k))
  \o "%' AND secret_value::text ILIKE '%" \o Q(likeEscape(v))
  \o "%' OR secret_value @> '{\"" \o Q(jsonEscape(k)) \o "\": \""
  \o Q(jsonEscape(v)) \o "\"}')"

SchemaClause(k, v, Q(_)) ==
  IF k = "secret_key" THEN "secret_key ILIKE '%" \o Q(likeEscape(v)) \o "%'"
  ELSE "secret_value::text ILIKE '%" \o Q(likeEscape(v)) \o "%'"

AsIs(s) == s

LeafClause(p, Q(_)) ==
  IF p.rule = "key_value"
  THEN IF KeyOf(p) \in SchemaFields THEN SchemaClause(KeyOf(p), ValOf(p), Q)
       ELSE ComboClause(KeyOf(p), ValOf(p), Q)
  ELSE TextClause(LogicalText(p.str), Q)

Leaves == {p \in CallPairs : p.rule \in {"term", "phrase", "key_value"}}

\* the rendering of a pair of the tree
Rendered(p) == parse_expression(p).val

\* the children of a list pair that are operands
Operands(p) == SelectSeq(p.inner, LAMBDA c : ~is_sep(c))

RenderedAll(ps) == [i \in DOMAIN ps |-> Rendered(ps[i])]

---------------------------------------------------------------------------
(* C1 *)
(* An argument that is empty or only whitespace returns exactly Ok("TRUE"), *)
(* and the parser is not invoked.                                           *)
C1_BlankIsTrue ==
  pc = "done" /\ OnlyWhitespace(raw)
    => result = Ok("TRUE") /\ ~parser_invoked /\ parse_tree = <<>>

C1_Witness ==
  pc = "done" /\ raw = " \t " /\ result = Ok("TRUE") /\ ~parser_invoked

(* C2 *)
(* In an accepted query every single quote of a term, phrase, key or value  *)
(* is doubled in the single-quoted SQL segments, after LIKE/JSON escaping:  *)
(* each leaf renders as its clause with every embedded text quote-doubled.  *)
C2_QuotesDoubled ==
  Accepted => \A p \in Leaves : Rendered(p) = LeafClause(p, sqlQuote)

(* C3 *)
(* An accepted query's SQL is balanced: every single-quoted literal is      *)
(* closed, parentheses outside literals never close below depth zero and    *)
(* end at depth zero.                                                       *)
SqlBalanced(sql) ==
  LET outside == OutsideLiterals(sql)
      opens == {i \in outside : Char(sql, i) = "("}
      closes == {i \in outside : Char(sql, i) = ")"}
  IN  /\ Count(sql, "'") % 2 = 0
      /\ Cardinality(opens) = Cardinality(closes)
      /\ \A c \in closes :
           Cardinality({j \in closes : j <= c}) <= Cardinality({j \in opens : j < c})

C3_Balanced == Accepted => SqlBalanced(result.val)

(* C4 *)
(* Every row an answered POST /search returns has the project_key of the   *)
(* request's X-PROJECT-KEY header, whatever the query string and whatever  *)
(* project_key field the body carries.                                     *)
Answered(handler) ==
  pc = "answered" /\ request.handler = handler

C4_SearchScoped ==
  (Answered("search_secrets") /\ response.status = 200) =>
    \A row \in response.body : row.project_key = request.project.val


C6_SchemaField ==
  Accepted =>
    \A p \in CallPairs :
      p.rule = "key_value" /\ KeyOf(p) \in SchemaFields =>
        /\ Rendered(p) = SchemaClause(KeyOf(p), ValOf(p), AsIs)
        /\ Contains(result.val, SchemaClause(KeyOf(p), ValOf(p), AsIs))
        /\ Count(Rendered(p), "(") = Count(likeEscape(ValOf(p)), "(")
        /\ Count(Rendered(p), "@") = Count(likeEscape(ValOf(p)), "@")

C6_Witness ==
  /\ pc = "done"
  /\ raw = "secret_value:\"a'b c\""
  /\ result = Ok("secret_value::text ILIKE '%a'b c%'")

(* C7 *)
(* A bare term and a quoted phrase with text t both render as the           *)
(* parenthesized pair of ILIKE patterns on the same escaped text; a phrase  *)
(* keeps its internal whitespace.                                           *)
C7_TermAndPhrase ==
  Accepted =>
    \A p \in CallPairs :
      p.rule \in {"term", "phrase"} =>
        /\ Rendered(p) = TextClause(LogicalText(p.str), AsIs)
        /\ Contains(result.val, TextClause(LogicalText(p.str), AsIs))

C7_Witness ==
  /\ pc = "done"
  /\ raw = "\"p q\""
  /\ result = Ok("(secret_key ILIKE '%p q%' OR secret_value::text ILIKE '%p q%')")

(* C8 *)
(* A negation, written - or NOT, renders as "NOT " followed by the          *)
(* rendering of its atom and covers that atom only; the atom keeps its own  *)
(* parentheses unless it is a schema-field key:value, which has none.       *)
IsNegated(p) == p.rule = "not_expr" /\ \E c \in Range(p.inner) : c.rule = "NOT_OP"

\* the primary of a not_expr and the atom inside it
PrimaryOf(p) == p.inner[Len(p.inner)]
AtomOf(p) == PrimaryOf(p).inner[1]

IsSchemaKeyValue(a) == a.rule = "key_value" /\ KeyOf(a) \in SchemaFields

TopShape ==
  LET top == parse_tree[1].inner[1]
      groups == Operands(top)
  IN  [i \in DOMAIN groups |-> Len(Operands(groups[i]))]

Alone(q) == query_to_sql(q).res.val

C9_Precedence ==
  Accepted =>
    /\ \A p \in CallPairs :
         /\ p.rule = "or_expr"
              => Rendered(p) = Join(RenderedAll(Operands(p)), " OR ")
         /\ p.rule = "and_expr"
              => Rendered(p) = Join(RenderedAll(Operands(p)), " AND ")
    /\ \A x, y, z \in ChainItems :
         /\ raw = x \o " AND " \o y \o " OR " \o z
              => /\ TopShape = <<2, 1>>
                 /\ result.val = Alone(x) \o " AND " \o Alone(y) \o " OR " \o Alone(z)
         /\ raw = x \o " OR " \o y \o " AND " \o z
              => /\ TopShape = <<1, 2>>
                 /\ result.val = Alone(x) \o " OR " \o Alone(y) \o " AND " \o Alone(z)

C9_Witness ==
  /\ pc = "done"
  /\ raw = "a OR k:v AND -secret_key:s"
  /\ TopShape = <<1, 2>>
  /\ result = Ok("(secret_key ILIKE '%a%' OR secret_value::text ILIKE '%a%') OR "
                 \o "(secret_key ILIKE '%k%' AND secret_value::text ILIKE '%v%'"
                 \o " OR secret_value @> '{\"k\": \"v\"}') AND "
                 \o "NOT secret_key ILIKE '%s%'")

(* C10 *)
(* A parenthesized group renders as "(" + its content + ")" whatever the    *)
(* content is; a list of one operand renders as that operand; no other      *)
(* parenthesis is added: the output's parentheses are those of the groups,  *)
(* of the leaf clauses and of the embedded texts.                           *)
\* how many times c stands in the texts a leaf embeds
EmbeddedCount(p, c) ==
  IF p.rule = "key_value"
  THEN IF KeyOf(p) \in SchemaFields THEN Count(ValOf(p), c)
       ELSE 2 * Count(KeyOf(p), c) + 2 * Count(ValOf(p), c)
  ELSE 2 * Count(LogicalText(p.str), c)

OwnParens(p) == IF IsSchemaKeyValue(p) THEN 0 ELSE 1

\* the parentheses c the rendering of p must hold: one per group, one per
\* parenthesized leaf clause, and those of the embedded texts
RECURSIVE ParenCount(_, _), ParenCountFrom(_, _, _)
ParenCountFrom(inner, i, c) ==
  IF i > Len(inner) THEN 0
  ELSE ParenCount(inner[i], c) + ParenCountFrom(inner, i + 1, c)

ParenCount(p, c) ==
  IF p.rule \in {"term", "phrase", "key_value"}
  THEN OwnParens(p) + EmbeddedCount(p, c)
  ELSE (IF p.rule = "grouped" THEN 1 ELSE 0) + ParenCountFrom(p.inner, 1, c)

C10_Groups ==
  Accepted =>
    /\ \A p \in CallPairs :
         /\ p.rule = "grouped"
              => Rendered(p) = "(" \o Rendered(Operands(p)[1]) \o ")"
         /\ p.rule \in {"or_expr", "and_expr"} /\ Len(Operands(p)) = 1
              => Rendered(p) = Rendered(Operands(p)[1])
    /\ parser_invoked =>
         /\ Count(result.val, "(") = ParenCount(parse_tree[1], "(")
         /\ Count(result.val, ")") = ParenCount(parse_tree[1], ")")

C10_Witness ==
  /\ pc = "done"
  /\ raw = "((a))"
  /\ result = Ok("(((secret_key ILIKE '%a%' OR secret_value::text ILIKE '%a%')))")

(* C11 *)
(* Every AND list, written with explicit AND, with whitespace alone or     *)
(* with any mix of the two, compiles to what the same operands joined by   *)
(* explicit AND compile to.                                                *)
Strs(ps) == [i \in DOMAIN ps |-> ps[i].str]

\* the operands of an and_expr pair written with explicit AND
ExplicitAnd(p) == Join(Strs(Operands(p)), " AND ")

C11_ImplicitAnd ==
  Accepted =>
    \A p \in CallPairs :
      p.rule = "and_expr" => query_to_sql(ExplicitAnd(p)).res = Ok(Rendered(p))

C11_Witness ==
  /\ pc = "done"
  /\ raw = "a k:v AND -secret_key:s"
  /\ result = query_to_sql("a AND k:v AND -secret_key:s").res
  /\ result = Ok("(secret_key ILIKE '%a%' OR secret_value::text ILIKE '%a%') AND "
                 \o "(secret_key ILIKE '%k%' AND secret_value::text ILIKE '%v%'"
                 \o " OR secret_value @> '{\"k\": \"v\"}') AND "
                 \o "NOT secret_key ILIKE '%s%'")

(* C12 *)
(* An unquoted value after key: is one token: it holds no whitespace, and  *)
(* in "k:v w" the pair is k:v and w is a separate operand of the same AND  *)
(* list; a value holds whitespace only when it is a quoted string.         *)
HasWhitespace(s) == \E i \in 1..Len(s) : Char(s, i) \in WhitespaceChars

\* the token of the value of a key_value pair
ValueToken(kv) == kv.inner[2].inner[1]

\* the atoms of the operands of the top-level AND list of the call
TopAtoms ==
  LET ops == Operands(Operands(parse_tree[1].inner[1])[1])
  IN  [i \in DOMAIN ops |-> AtomOf(ops[i])]

C12_ValueOneToken ==
  Accepted =>
    /\ \A p \in CallPairs :
         p.rule = "key_value" =>
           /\ ValueToken(p).rule \in {"ident", "quoted_string"}
           /\ ValueToken(p).rule = "ident"
                => ValOf(p) = ValueToken(p).str /\ ~HasWhitespace(ValOf(p))
           /\ HasWhitespace(ValOf(p)) => ValueToken(p).rule = "quoted_string"
    /\ \A w \in ChainItems :
         raw = "k:v " \o w =>
           /\ Len(TopAtoms) = 2
           /\ TopAtoms[1].rule = "key_value" /\ TopAtoms[1].str = "k:v"
           /\ ValOf(TopAtoms[1]) = "v"
           /\ result.val = Alone("k:v") \o " AND " \o Alone(w)

C12_Witness ==
  /\ pc = "done"
  /\ raw = "k:v a"
  /\ Len(TopAtoms) = 2
  /\ TopAtoms[2].rule = "term" /\ TopAtoms[2].str = "a"
  /\ result = Ok("(secret_key ILIKE '%k%' AND secret_value::text ILIKE '%v%'"
                 \o " OR secret_value @> '{\"k\": \"v\"}') AND "
                 \o "(secret_key ILIKE '%a%' OR secret_value::text ILIKE '%a%')")

(* C13 *)
(* A query with an empty key or value, unbalanced parentheses, a dangling  *)
(* trailing operator, an unterminated quoted string or two adjacent binary *)
(* operators returns Err(SyntaxError) and no SQL.                          *)
\* the closing quote of a quoted string whose content starts at j, 0 if none
RECURSIVE QuoteClose(_, _)
QuoteClose(s, j) ==
  IF j > Len(s) THEN 0
  ELSE IF Char(s, j) = "\"" THEN j
  ELSE IF Char(s, j) = "\\" /\ j < Len(s) /\ Char(s, j + 1) \in {"\\", "\""}
  THEN QuoteClose(s, j + 2)
  ELSE QuoteClose(s, j + 1)

\* the positions of s inside quoted strings, their quotes included
RECURSIVE QuotedFrom(_, _), QuotedTo(_, _, _)
QuotedFrom(s, i) ==
  IF i > Len(s) THEN {}
  ELSE IF Char(s, i) # "\"" THEN QuotedFrom(s, i + 1)
  ELSE QuotedTo(s, i, QuoteClose(s, i + 1))

QuotedTo(s, i, c) ==
  IF c = 0 THEN i..Len(s) ELSE (i..c) \cup QuotedFrom(s, c + 1)

RECURSIVE LeftOpenFrom(_, _), LeftOpenTo(_, _)
LeftOpenFrom(s, i) ==
  IF i > Len(s) THEN FALSE
  ELSE IF Char(s, i) # "\"" THEN LeftOpenFrom(s, i + 1)
  ELSE LeftOpenTo(s, QuoteClose(s, i + 1))

LeftOpenTo(s, c) == IF c = 0 THEN TRUE ELSE LeftOpenFrom(s, c + 1)

Unquoted(s) == (1..Len(s)) \ QuotedFrom(s, 1)

Delimiters == WhitespaceChars \cup {"(", ")", ":"}

UnterminatedString(s) == LeftOpenFrom(s, 1)

EmptyKeyOrValue(s) ==
  LET t == Trim(s)
      out == Unquoted(t)
  IN  \E i \in out :
        /\ Char(t, i) = ":"
        /\ \/ i = 1
           \/ i = Len(t)
           \/ i - 1 \in out /\ Char(t, i - 1) \in Delimiters
           \/ i + 1 \in out /\ Char(t, i + 1) \in Delimiters

UnbalancedParentheses(s) ==
  LET out == Unquoted(s)
      opens == {i \in out : Char(s, i) = "("}
      closes == {i \in out : Char(s, i) = ")"}
  IN  \/ Cardinality(opens) # Cardinality(closes)
      \/ \E c \in closes :
           Cardinality({j \in closes : j <= c}) > Cardinality({j \in opens : j < c})

\* the word w stands at i as a whole run
WordAt(t, i, w) ==
  /\ StartsWithAt(t, i, w)
  /\ i = 1 \/ ~IsIdentChar(Char(t, i - 1))
  /\ i + Len(w) > Len(t) \/ ~IsIdentChar(Char(t, i + Len(w)))

DanglingOperator(s) ==
  LET t == Trim(s) IN
  \E w \in {"AND", "OR", "NOT"} :
    Len(t) >= Len(w) /\ WordAt(t, Len(t) - Len(w) + 1, w)

AdjacentOperators(s) ==
  LET out == Unquoted(s) IN
  \E i, j \in out : \E w1, w2 \in {"AND", "OR"} :
    /\ WordAt(s, i, w1)
    /\ WordAt(s, j, w2)
    /\ i + Len(w1) < j
    /\ \A k \in (i + Len(w1))..(j - 1) : Char(s, k) \in WhitespaceChars

Malformed(s) ==
  \/ EmptyKeyOrValue(s)
  \/ UnbalancedParentheses(s)
  \/ DanglingOperator(s)
  \/ UnterminatedString(s)
  \/ AdjacentOperators(s)

C13_SyntaxErrors ==
  pc = "done" /\ Malformed(raw)
    => result = SyntaxError /\ parser_invoked /\ parse_tree = <<>>

C13_Witness ==
  /\ pc = "done"
  /\ raw = "a:b OR AND c:d"
  /\ AdjacentOperators(raw)
  /\ result = SyntaxError

(* C14 *)
(* Every query the grammar accepts returns Ok: no InternalError and no     *)
(* unwrap on None is reached from a parse tree of the grammar; the only    *)
(* error is SyntaxError, and exactly for the input the grammar rejects.    *)
\* the rules of the pairs parse_expression is called with
RenderedRules ==
  {"expression", "or_expr", "and_expr", "not_expr", "primary", "grouped",
   "key_value", "phrase", "term"}

GrammarAccepts(s) == QueryParser_parse(Trim(s)).ok

C14_NoInternalError ==
  pc = "done" =>
    /\ result.kind \in {"Ok", "SyntaxError"}
    /\ parser_invoked /\ GrammarAccepts(raw) => IsOk(result)
    /\ result.kind = "SyntaxError" <=> parser_invoked /\ ~GrammarAccepts(raw)
    /\ \A p \in CallPairs :
         p.rule \in RenderedRules => parse_expression(p).kind = "Ok"

C14_Witness ==
  /\ pc = "done"
  /\ raw = "NOT (\"secret_key\":v)"
  /\ parser_invoked
  /\ GrammarAccepts(raw)
  /\ result = Ok("NOT (secret_key ILIKE '%v%')")

(* C15 *)
(* Two calls of query_to_sql with the same argument return the same        *)
(* result, whatever calls returned before them.                            *)
\* <<argument, result>> of the calls that returned or are about to
Results ==
  returned \cup {<<calls[t].raw, calls[t].result>> :
                   t \in {u \in DOMAIN calls : calls[u].pc = "return"}}

C16_Isolated ==
  \A t \in DOMAIN calls :
    calls[t].pc = "return" => calls[t].result = query_to_sql(calls[t].raw).res

C16_Witness ==
  /\ Len(calls) >= 2
  /\ calls[1].pc = "return" /\ calls[1].raw = " a "
  /\ calls[1].result
       = Ok("(secret_key ILIKE '%a%' OR secret_value::text ILIKE '%a%')")
  /\ calls[2].pc = "return" /\ calls[2].raw = "k:v -b"
  /\ calls[2].result = query_to_sql("k:v -b").res
  /\ IsOk(calls[2].result)

(* C17 *)
(* For every quoted string accepted as a phrase, key or value, the text    *)
(* that is rendered is the content between the outer quotes with the       *)
(* escape pairs \\ and \" read left to right and every other character     *)
(* unchanged; the two replace passes of the code give that same text.      *)
QuotedStrings == {p \in CallPairs : p.rule = "quoted_string"}

C17_Unescape ==
  Accepted =>
    /\ \A p \in QuotedStrings :
         /\ unescape(strip_quotes(p.str)) = UnescapeScan(p.str, 2, Len(p.str) - 1)
         /\ phrase_text(p.str) = UnescapeScan(p.str, 2, Len(p.str) - 1)
    /\ \A p \in Leaves : Rendered(p) = LeafClause(p, AsIs)

C17_Witness ==
  /\ pc = "done"
  /\ raw = "\"\\\\\\\"\""
  /\ Len(raw) = 6
  /\ \E p \in QuotedStrings : UnescapeScan(p.str, 2, Len(p.str) - 1) = "\\\""
  /\ result = Ok("(secret_key ILIKE '%\\\\\"%' OR secret_value::text ILIKE '%\\\\\"%')")

(* C18 *)
(* escape_sql_like puts exactly one backslash before each backslash, each  *)
(* % and each _ of its input and leaves every other character as it is,    *)
(* and every text embedded in an ILIKE pattern has gone through it.        *)
EmbeddedTexts(p) ==
  IF p.rule = "key_value" THEN {KeyOf(p), ValOf(p)} ELSE {LogicalText(p.str)}

C18_LikeEscape ==
  Accepted =>
    \A p \in Leaves :
      /\ \A t \in EmbeddedTexts(p) :
           /\ escape_sql_like(t) = likeEscape(t)
           /\ Len(escape_sql_like(t))
                = Len(t) + Count(t, "\\") + Count(t, "%") + Count(t, "_")
      /\ Rendered(p) = LeafClause(p, AsIs)

C18_Witness ==
  /\ pc = "done"
  /\ raw = "\\%_"
  /\ Len(raw) = 3
  /\ result = Ok("(secret_key ILIKE '%\\\\\\%\\_%' OR secret_value::text ILIKE '%\\\\\\%\\_%')")

(* C19 *)
(* In the clause of a generic key:value the containment literal embeds key *)
(* and value with the JSON escaping only (backslash and double quote get a *)
(* backslash, % and _ stay), and the two ILIKE patterns embed them with    *)
(* the LIKE escaping only (double quotes stay).                            *)
GenericPairs == {p \in Leaves : IsGenericKeyValue(p)}

LikePart(k, v) ==
  "(secret_key ILIKE '%" \o likeEscape(k)
  \o "%' AND secret_value::text ILIKE '%" \o likeEscape(v) \o "%' OR "

JsonPart(k, v) ==
  "secret_value @> '{\"" \o jsonEscape(k) \o "\": \"" \o jsonEscape(v) \o "\"}')"

C19_TwoEscapings ==
  Accepted =>
    \A p \in GenericPairs :
      /\ json_escape(KeyOf(p)) = jsonEscape(KeyOf(p))
      /\ json_escape(ValOf(p)) = jsonEscape(ValOf(p))
      /\ Rendered(p) = LikePart(KeyOf(p), ValOf(p)) \o JsonPart(KeyOf(p), ValOf(p))

C19_Witness ==
  /\ pc = "done"
  /\ IsOk(result)
  /\ \E p \in GenericPairs : KeyOf(p) = "k's" /\ ValOf(p) = "50%_\\ \"v\""
  /\ Contains(result.val, "secret_value::text ILIKE '%50\\%\\_\\\\ \"v\"%' OR ")
  /\ Contains(result.val, "@> '{\"k's\": \"50%_\\\\ \\\"v\\\"\"}')")

(* C20 *)
(* When query_to_sql returns a syntax error for the query of a POST        *)
(* /search request that passed the extractors, the handler answers 400     *)
(* with a body that carries the error's message, executes no statement and *)
(* leaves the stored secrets as they were.                                 *)
SearchCompiled(req) == query_to_sql(unwrap_or_default(req.body.query)).res

SearchSyntaxError(req) ==
  /\ req.handler = "search_secrets"
  /\ Extracted(req, FALSE)
  /\ SearchCompiled(req).kind = "SyntaxError"

C20_SyntaxErrorIs400 ==
  [][(pc = "received" /\ SearchSyntaxError(request)) =>
       /\ pc' = "answered"
       /\ response'.status = 400
       /\ Contains(response'.body, Display(SearchCompiled(request)))
       /\ executed' = <<>>
       /\ secrets' = secrets]_vars

C20_Witness ==
  /\ Answered("search_secrets")
  /\ SearchSyntaxError(request)
  /\ request.body.query = Some("(")
  /\ response = [status |-> 400,
                 body |-> "Invalid search query syntax. Error details: Invalid query syntax: "]
  /\ executed = <<>>
  /\ secrets # {}

(* C21 *)
(* GET /secrets/{key} under project P answers 200 with the value of the    *)
(* most recent acknowledged upsert to (P, key) when no acknowledged delete *)
(* of (P, key) followed it, and 404 otherwise; writes to another key or    *)
(* another project do not change the answer.                               *)
LastWritten(project, key) == {w[3] : w \in {x \in written : x[1] = project /\ x[2] = key}}

C21_ReadYourWrites ==
  (Answered("get_secret") /\ Extracted(request, FALSE)) =>
    /\ Cardinality(LastWritten(request.project.val, request.key)) <= 1
    /\ IF LastWritten(request.project.val, request.key) = {}
       THEN response = [status |-> 404, body |-> "Not found"]
       ELSE /\ response.status = 200
            /\ response.body \in LastWritten(request.project.val, request.key)

\* read after an overwrite, with another value under the same key in the
\* other project and another key in the same project
C21_Witness ==
  /\ Answered("get_secret")
  /\ request.project = Some("p1")
  /\ request.key = "k"
  /\ response = [status |-> 200, body |-> JsonObject("k", "v")]
  /\ <<"p2", "k", JsonString("a")>> \in written
  /\ <<"p1", "ab", JsonString("a")>> \in written

\* read after a delete, the key still being there in the other project
C21_WitnessDeleted ==
  /\ Answered("get_secret")
  /\ request.project = Some("p1")
  /\ request.key = "k"
  /\ response.status = 404
  /\ <<"p2", "k", JsonString("a")>> \in written

(* C22 *)
(* A write request whose x-api-key is absent or anything but the write     *)
(* key, the read key included, is answered 401 and leaves the store as it  *)
(* was; a read request is answered 401 exactly when its key is neither the *)
(* read key nor the write key.                                             *)
WriteHandlers ==
  {"upsert_secret", "main_upsert_secret", "upsert_secret_by_path", "delete_secret"}
ReadHandlers == {"get_secret", "search_secrets"}

C22_Authentication ==
  [][pc = "received" =>
       /\ request.handler \in WriteHandlers =>
            /\ response'.status = 401 <=> request.api_key # Some(WriteKey)
            /\ response'.status = 401 => secrets' = secrets /\ executed' = <<>>
       /\ request.handler \in ReadHandlers =>
            /\ response'.status = 401
                 <=> request.api_key \notin {Some(ReadKey), Some(WriteKey)}
            /\ secrets' = secrets]_vars

C22_Witness ==
  /\ Answered("upsert_secret")
  /\ request.api_key = Some(ReadKey)
  /\ request.project = Some("p1")
  /\ response = [status |-> 401, body |-> "Write key invalid"]
  /\ executed = <<>>
  /\ secrets # {}
  /\ \A row \in secrets : ~(row.project_key = "p1" /\ row.secret_key = request.body.key)

(* C23 *)
(* A request with a valid API key and no X-PROJECT-KEY header is answered  *)
(* 400 on every endpoint, with no statement executed and the store as it   *)
(* was; with an invalid key as well the answer is 401.                     *)
ValidKeys(handler) ==
  IF handler \in WriteHandlers THEN {Some(WriteKey)} ELSE {Some(ReadKey), Some(WriteKey)}

C23_MissingProject ==
  [][(pc = "received" /\ request.project = None) =>
       /\ executed' = <<>>
       /\ secrets' = secrets
       /\ IF request.api_key \in ValidKeys(request.handler)
          THEN response' = [status |-> 400, body |-> "Missing X-PROJECT-KEY"]
          ELSE response'.status = 401]_vars

C23_Witness ==
  /\ Answered("delete_secret")
  /\ request.api_key = Some(WriteKey)
  /\ request.project = None
  /\ response = [status |-> 400, body |-> "Missing X-PROJECT-KEY"]
  /\ executed = <<>>
  /\ \E row \in secrets : row.secret_key = request.key

\* both headers wrong: the key is reported
C23_WitnessBoth ==
  /\ Answered("search_secrets")
  /\ request.api_key = Some("wrong")
  /\ request.project = None
  /\ response = [status |-> 401, body |-> "Read key invalid"]

\* what a query asks of a row, by the rendering table of the specification
ContainsCI(s, t) == Contains(LowerStr(s), LowerStr(t))

TextHolds(t, row) ==
  ContainsCI(row.secret_key, t) \/ ContainsCI(JsonbText(row.secret_value), t)

KeyValueHolds(k, v, row) ==
  IF k = "secret_key" THEN ContainsCI(row.secret_key, v)
  ELSE IF k = "secret_value" THEN ContainsCI(JsonbText(row.secret_value), v)
  ELSE \/ ContainsCI(row.secret_key, k) /\ ContainsCI(JsonbText(row.secret_value), v)
       \/ row.secret_value = JsonObject(k, v)

\* the truth value of the tree under p on row
RECURSIVE Holds(_, _)
Holds(p, row) ==
  CASE p.rule \in {"expression", "grouped"} ->
         Holds(CHOOSE c \in Range(p.inner) : c.rule = "or_expr", row)
    [] p.rule = "or_expr" -> \E c \in Range(Operands(p)) : Holds(c, row)
    [] p.rule = "and_expr" -> \A c \in Range(Operands(p)) : Holds(c, row)
    [] p.rule = "not_expr" -> IsNegated(p) # Holds(PrimaryOf(p), row)
    [] p.rule = "primary" -> Holds(p.inner[1], row)
    [] p.rule = "key_value" -> KeyValueHolds(KeyOf(p), ValOf(p), row)
    [] OTHER -> TextHolds(LogicalText(p.str), row)

(* C24 *)
(* POST /search answers with exactly the rows of the header's project that *)
(* satisfy the query: every row of the project when the query is absent,   *)
(* empty or only whitespace, and for a single term t the rows of the       *)
(* project whose secret_key or secret_value text contains t, letter case   *)
(* aside; each row has the fields secret_key, project_key, secret_value.   *)
SingleTerm(q) ==
  /\ Len(q) > 0
  /\ \A i \in 1..Len(q) : IsIdentChar(Char(q, i))
  /\ Char(q, 1) # "-"
  /\ q \notin Reserved

ProjectRows(project) == {row \in secrets : row.project_key = project}

TermRows(project, t) ==
  {row \in ProjectRows(project) :
     ContainsCI(row.secret_key, t) \/ ContainsCI(JsonbText(row.secret_value), t)}

SearchQuery == unwrap_or_default(request.body.query)

\* whether row is asked for by the query q, which compiles
Satisfies(q, row) ==
  OnlyWhitespace(q) \/ Holds(query_to_sql(q).pairs[1], row)

C24_SearchRows ==
  (Answered("search_secrets") /\ Extracted(request, FALSE)
     /\ IsOk(SearchCompiled(request))) =>
    response = [status |-> 200,
                body |-> {row \in ProjectRows(request.project.val) :
                            Satisfies(SearchQuery, row)}]

\* the two cases the claim spells out
C24_BlankOrTerm ==
  (Answered("search_secrets") /\ Extracted(request, FALSE)) =>
    /\ OnlyWhitespace(SearchQuery) =>
         response = [status |-> 200, body |-> ProjectRows(request.project.val)]
    /\ SingleTerm(Trim(SearchQuery)) =>
         response = [status |-> 200,
                     body |-> TermRows(request.project.val, Trim(SearchQuery))]
    /\ response.status = 200 =>
         \A row \in response.body :
           DOMAIN row = {"secret_key", "project_key", "secret_value"}

C24_Witness ==
  /\ Answered("search_secrets")
  /\ request.project = Some("p1")
  /\ request.body.query = Some("B")
  /\ SingleTerm(Trim(SearchQuery))
  /\ response = [status |-> 200, body |-> {Row("p1", "ab", JsonObject("k", "v"))}]
  /\ Row("p1", "k", JsonString("a")) \in secrets
  /\ Row("p2", "ab", JsonString("a")) \in secrets

\* no query at all: the project's rows, and only those
C24_WitnessAll ==
  /\ Answered("search_secrets")
  /\ request.project = Some("p1")
  /\ request.body.query = None
  /\ response.status = 200
  /\ Cardinality(response.body) = 2
  /\ Cardinality(secrets) = 4

(* C26 *)
(* For every accepted query the rendered SQL, read with SQL's precedence   *)
(* (comparison, NOT, AND, OR), has on every row the truth value of the     *)
(* query's expression tree: Or of And of Not of atoms, groups as written.  *)
\* the rows the two readings are compared on
TestRows ==
  { Row("p1", "ab", JsonString("s")), Row("p1", "k", JsonObject("k", "v")),
    Row("p1", "x_%", JsonString("p q")), Row("p1", "s", JsonObject("a", "b")) }

\* PostgreSQL's reading of the condition sql on row: [ok, val]
SqlTruth(sql, row) ==
  IF Count(sql, "'") % 2 # 0 THEN [ok |-> FALSE, val |-> FALSE]
  ELSE PgCondition(SqlTokens(sql), row, "")

SameTruth(sql, tree, row) ==
  SqlTruth(sql, row) = [ok |-> TRUE, val |-> Holds(tree, row)]

C26_SameTruth ==
  (Accepted /\ parse_tree # <<>>) =>
    \A row \in TestRows : SameTruth(result.val, parse_tree[1], row)

\* the same on the queries without a single quote
C26_SameTruthWithoutQuotes ==
  (Accepted /\ parse_tree # <<>> /\ Count(raw, "'") = 0) =>
    \A row \in TestRows : SameTruth(result.val, parse_tree[1], row)

C25_SyntaxErrorKind ==
  (Answered("search_secrets") /\ result.kind = "SyntaxError") =>
    response.status = 400 /\ executed = <<>>

(* C27 *)
(* POST /secrets of the binary binds, like the one of the library, the     *)
(* header's project as $1, the body's key as $2 and the body's value as $3 *)
(* of the upsert_secret statement, so that the secret is stored under      *)
(* (header project, body key) and GET /secrets/{key} of that project reads *)
(* it.                                                                     *)
UpsertBinds(req) == <<req.project.val, req.body.key, req.body.value>>

Upserted(req) ==
  /\ response.status = 204
  /\ executed = <<Statement(Queries.upsert_secret, UpsertBinds(req))>>
  /\ PgSelectValue(secrets, req.body.key, req.project.val) = {req.body.value}

C27_SameBinds ==
  /\ (Answered("upsert_secret") /\ Extracted(request, TRUE)) => Upserted(request)
  /\ (Answered("main_upsert_secret") /\ Extracted(request, TRUE)) => Upserted(request)

\* the library's half, which holds
C27_LibraryBinds ==
  (Answered("upsert_secret") /\ Extracted(request, TRUE)) => Upserted(request)

(* C28 *)
(* For every accepted query each negation operator of the source gives     *)
(* exactly one "NOT " in the output: the number of "NOT " outside string   *)
(* literals equals the number of NOT and - operators of the query, so a    *)
(* doubly negated operand is not rendered as a single negation.            *)
RECURSIVE NotOps(_), NotOpsIn(_, _)
\* the NOT_OP pairs of the tree under p, each counted
NotOps(p) == (IF p.rule = "NOT_OP" THEN 1 ELSE 0) + NotOpsIn(p.inner, 1)

NotOpsIn(inner, i) ==
  IF i > Len(inner) THEN 0 ELSE NotOps(inner[i]) + NotOpsIn(inner, i + 1)

\* the occurrences of "NOT " in sql outside its single-quoted literals
NotPrefixes(sql) ==
  {i \in OutsideLiterals(sql) : StartsWithAt(sql, i, "NOT ")}

C28_OneNotPerOperator ==
  (Accepted /\ parse_tree # <<>>) =>
    Cardinality(NotPrefixes(result.val)) = NotOps(parse_tree[1])

\* the same on the queries without a single quote
C28_OneNotWithoutQuotes ==
  (Accepted /\ parse_tree # <<>> /\ Count(raw, "'") = 0) =>
    Cardinality(NotPrefixes(result.val)) = NotOps(parse_tree[1])

\* a negated group of a negated atom keeps both negations
C28_WitnessDouble ==
  /\ pc = "done"
  /\ raw = "-(-a)"
  /\ NotOps(parse_tree[1]) = 2
  /\ result = Ok("NOT (NOT (secret_key ILIKE '%a%' OR secret_value::text ILIKE '%a%'))")

=============================================================================
